---- MODULE Spec2Model ----
(***************************************************************************)
(* PrivateTodoList: the on-chain contract of keykeeper-daily-log           *)
(* (contracts/PrivateTodoList.sol) together with the part of the FHEVM     *)
(* library the contract calls (FHE.fromExternal, FHE.allowThis, FHE.allow) *)
(* and the user decryption the tests perform on returned handles; and the  *)
(* React hook useTodoList (ui/src/hooks/useTodoList.tsx) that drives the   *)
(* contract from the browser.                                              *)
(*                                                                         *)
(* Spec is the contract under transactions of any caller. HookSpec is one  *)
(* browser session of the hook from a fresh deployment, one createTodo or  *)
(* toggleTodo call at a time next to loadTodos; OverlapSpec is a later     *)
(* session in which toggleTodo calls overlap. In both the contract is      *)
(* called by the hook only.                                                *)
(***************************************************************************)
EXTENDS Integers, Sequences, FiniteSets, TLC

(***************************************************************************)
(* Bounds of the model.                                                    *)
(***************************************************************************)
\* number of transactions explored
MaxTx == 3
\* latest block time explored
MaxTime == 2
\* number of transactions one browser session sends
MaxSessionTx == 2

(***************************************************************************)
(* Addresses, plaintexts, handles.                                         *)
(***************************************************************************)
\* the signers of the tests that send transactions
Users == {"alice", "bob"}

\* address(this)
This == "contract"

\* plaintexts an encrypted input carries: a sample of the euint32 range with
\* the two documented completion values and one value that is neither
Values == {0, 1, 2}

\* plaintexts of the ids submitted (hashes of todo texts)
IdValues == {1, 2}

\* todoIndex arguments submitted: every index a list can have within MaxTx
\* transactions, so that each list also sees an index past its end
TodoIndexes == 0..(MaxTx - 1)

\* A handle is the opaque reference the SDK returns from
\* createEncryptedInput(contract, user).add32(value).encrypt(): it is bound to
\* the user it was encrypted for, and names a ciphertext of one plaintext.
\* Two encryptions never give the same handle: nonce tells apart the handles
\* of one plaintext. The inputs of direct callers are the handles of nonce 0.
Handles == [user : Users, value : Values, nonce : {0}]
Nonces == 1..(2 * MaxTx + 2)

\* handles submitted as encryptedId
IdHandles == {h \in Handles : h.value \in IdValues}

\* absent handle, used in the record of a call that carried none
NoHandle == [user |-> "none", value |-> -1, nonce |-> 0]

\* inputProof bytes: the proof encrypt() returned with the handle, or any other bytes
InputProofs == {"valid", "invalid"}

\* the plaintext behind a handle's ciphertext (known to the key holder only)
Plain(h) == h.value

VARIABLES
    userTodos,   \* _userTodos : address -> EncryptedTodo[]
    todoCount,   \* _todoCount : address -> uint256
    acl,         \* FHE access control list: set of <<handle, account>> allowed
    now,         \* block.timestamp of the block being built
    txCount,     \* number of transactions sent so far
    nCreates,    \* history: number of successful createTodo calls per address
    lastCall,    \* history: the last transaction, its outcome and its events
    \* the browser session of useTodoList
    contractAddress, \* whether VITE_CONTRACT_ADDRESS is configured
    accounts,        \* the accounts of the wallet
    maxInFlight,     \* how many createTodo / toggleTodo calls the user lets overlap
    address,         \* useAccount().address, NoAddress when no wallet is connected
    ready,           \* ethersSigner, ethersProvider and fhevmInstance are set
    todos,           \* useState<Todo[]>
    isLoading,       \* useState(false)
    isDecrypting,    \* useState(false)
    message,         \* useState<string | undefined>
    textMap,         \* localStorage todo_text_map_<address>, per address
    completedMap,    \* localStorage todo_completed_map_<address>, per address
    ops,             \* the createTodo / toggleTodo calls in flight, oldest first
    loader,          \* the loadTodos call in flight
    reloadPending,   \* the loadTodos calls that are due (timers, effect), by the
                     \* address their closure captured
    closureTodos,    \* the todos the memoized toggleTodo callback closed over
    settled,         \* history: the last createTodo / toggleTodo call that settled,
                     \* and whether it returned or threw
    sessionTx        \* history: number of transactions the session sent

chainVars == <<userTodos, todoCount, acl, now, txCount, nCreates, lastCall>>

walletVars == <<contractAddress, accounts, maxInFlight, address, ready>>

hookVars == <<contractAddress, accounts, maxInFlight, address, ready, todos, isLoading,
              isDecrypting, message,
              textMap, completedMap, ops, loader, reloadPending, closureTodos, settled,
              sessionTx>>

vars == <<userTodos, todoCount, acl, now, txCount, nCreates, lastCall,
          contractAddress, accounts, maxInFlight, address, ready, todos, isLoading,
          isDecrypting, message,
          textMap, completedMap, ops, loader, reloadPending, closureTodos, settled,
          sessionTx>>

(***************************************************************************)
(* FHE library calls made by the contract.                                 *)
(***************************************************************************)
\* FHE.fromExternal(handle, proof): the input verifier accepts the handle only
\* with the proof produced for it, and only from the user it was encrypted for.
fromExternalVerifies(h, proof, sender) ==
    proof = "valid" /\ h.user = sender

\* FHE.fromExternal returns the verified handle as a euint32
fromExternal(h) == h

\* FHE.allowThis(h)
allowThis(a, h) == a \cup {<<h, This>>}

\* FHE.allow(h, account)
allow(a, h, account) == a \cup {<<h, account>>}

\* fhevm.userDecryptEuint(handle, contract, user): the plaintext when both the
\* user and the contract are allowed on the handle, refused otherwise
userDecrypt(h, user) ==
    IF <<h, user>> \in acl /\ <<h, This>> \in acl THEN Plain(h) ELSE -1

(***************************************************************************)
(* View functions.                                                         *)
(***************************************************************************)
\* getTodoCount(user)
getTodoCount(user) == Len(userTodos[user])

\* variant: the bound of getTodo is off by one
getTodoInBounds_offByOne(user, index) == index <= Len(userTodos[user])

\* getTodo(user, index) succeeds
getTodoInBounds(user, index) == index < Len(userTodos[user])

\* getTodo(user, index), index counted from 0 as in the contract
getTodo(user, index) == userTodos[user][index + 1]

\* the todo of a call that returned none
NoTodo == [id |-> NoHandle, completed |-> NoHandle, timestamp |-> 0]

\* the outcome of the call getTodo(user, index): the require, then the array read
getTodoCall(user, index) ==
    IF ~getTodoInBounds(user, index)
    THEN [status |-> "reverted", reason |-> "Todo index out of bounds", todo |-> NoTodo]
    ELSE IF index >= Len(userTodos[user])
    THEN [status |-> "reverted", reason |-> "Panic(0x32)", todo |-> NoTodo]
    ELSE [status |-> "ok", reason |-> "", todo |-> getTodo(user, index)]

\* variant: the loop of getTodoTimestamps starts at 1
RECURSIVE timestampsLoop_skipsFirst(_, _, _, _)
timestampsLoop_skipsFirst(lists, count, i, timestamps) ==
    IF i = 0 /\ count > 0
    THEN timestampsLoop_skipsFirst(lists, count, 1, timestamps)
    ELSE IF i < count
    THEN timestampsLoop_skipsFirst(lists, count, i + 1,
                                   [timestamps EXCEPT ![i + 1] = lists[i + 1].timestamp])
    ELSE timestamps

\* for (i = 0; i < count; i++) timestamps[i] = _userTodos[user][i].timestamp
RECURSIVE timestampsLoop(_, _, _, _)
timestampsLoop(lists, count, i, timestamps) ==
    IF i < count
    THEN timestampsLoop(lists, count, i + 1,
                        [timestamps EXCEPT ![i + 1] = lists[i + 1].timestamp])
    ELSE timestamps

\* getTodoTimestamps(user): a new array of count zeros, filled by the loop
getTodoTimestamps(user) ==
    LET count == Len(userTodos[user])
    IN timestampsLoop(userTodos[user], count, 0, [k \in 1..count |-> 0])

(***************************************************************************)
(* createTodo                                                              *)
(***************************************************************************)
\* variant: the two encrypted fields of the struct are filled the wrong way round
newTodo_swapsFields(id, completed, timestamp) ==
    [id |-> completed, completed |-> id, timestamp |-> timestamp]

\* EncryptedTodo({id, completed, timestamp: block.timestamp})
newTodo(id, completed, timestamp) ==
    [id |-> id, completed |-> completed, timestamp |-> timestamp]

\* variant: the new todo is put at the front of the caller's list
pushTodo_prepends(lists, sender, todo) ==
    [lists EXCEPT ![sender] = <<todo>> \o @]

\* variant: one list shared by all addresses instead of a list per address
pushTodo_everyUser(lists, sender, todo) ==
    [u \in DOMAIN lists |-> Append(lists[u], todo)]

\* _userTodos[msg.sender].push(newTodo)
pushTodo(lists, sender, todo) ==
    [lists EXCEPT ![sender] = Append(@, todo)]

\* variant: the counter is not kept
incTodoCount_forgets(counts, sender) == counts

\* _todoCount[msg.sender]++
incTodoCount(counts, sender) ==
    [counts EXCEPT ![sender] = @ + 1]

\* variant: the handles are also opened to every other user
createTodoGrants_everyUser(a, id, completed, sender) ==
    a \cup {<<h, account>> : h \in {id, completed}, account \in Users \cup {This}}

\* the four permission grants of createTodo
createTodoGrants(a, id, completed, sender) ==
    allow(allowThis(allow(allowThis(a, id), id, sender), completed), completed, sender)

\* emit TodoCreated(msg.sender, _todoCount[msg.sender] - 1, block.timestamp)
TodoCreated(counts, sender, timestamp) ==
    [name |-> "TodoCreated", user |-> sender,
     todoIndex |-> counts[sender] - 1, timestamp |-> timestamp]

CreateTodo(sender, encryptedId, encryptedCompleted, idProof, completedProof) ==
    /\ txCount < MaxTx
    /\ txCount' = txCount + 1
    /\ now' = now
    /\ IF /\ fromExternalVerifies(encryptedId, idProof, sender)
          /\ fromExternalVerifies(encryptedCompleted, completedProof, sender)
       THEN LET id == fromExternal(encryptedId)
                completed == fromExternal(encryptedCompleted)
                counts == incTodoCount(todoCount, sender)
            IN /\ userTodos' = pushTodo(userTodos, sender, newTodo(id, completed, now))
               /\ todoCount' = counts
               /\ acl' = createTodoGrants(acl, id, completed, sender)
               /\ nCreates' = [nCreates EXCEPT ![sender] = @ + 1]
               /\ lastCall' = [op |-> "createTodo", sender |-> sender,
                               todoIndex |-> counts[sender] - 1,
                               encryptedId |-> encryptedId,
                               encryptedCompleted |-> encryptedCompleted,
                               status |-> "ok", reason |-> "",
                               events |-> <<TodoCreated(counts, sender, now)>>]
       ELSE /\ UNCHANGED <<userTodos, todoCount, acl, nCreates>>
            /\ lastCall' = [op |-> "createTodo", sender |-> sender,
                            todoIndex |-> 0,
                            encryptedId |-> NoHandle,
                            encryptedCompleted |-> NoHandle,
                            status |-> "reverted", reason |-> "Invalid input proof",
                            events |-> <<>>]

(***************************************************************************)
(* toggleTodo                                                              *)
(***************************************************************************)
\* variant: the bound is off by one
toggleInBounds_offByOne(lists, sender, todoIndex) ==
    todoIndex <= Len(lists[sender])

\* require(todoIndex < _userTodos[msg.sender].length, "Todo index out of bounds")
toggleInBounds(lists, sender, todoIndex) ==
    todoIndex < Len(lists[sender])

\* variant: the new handle is written to the id field
setCompleted_writesId(lists, sender, todoIndex, completed, timestamp) ==
    [lists EXCEPT ![sender][todoIndex + 1] =
        [@ EXCEPT !.id = completed, !.timestamp = timestamp]]

\* variant: the todo at todoIndex is written in every address's list
setCompleted_everyUser(lists, sender, todoIndex, completed, timestamp) ==
    [u \in DOMAIN lists |->
        IF todoIndex < Len(lists[u])
        THEN [lists[u] EXCEPT ![todoIndex + 1] =
                [@ EXCEPT !.completed = completed, !.timestamp = timestamp]]
        ELSE lists[u]]

\* variant: the timestamp of the todo is left as it was
setCompleted_keepsTimestamp(lists, sender, todoIndex, completed, timestamp) ==
    [lists EXCEPT ![sender][todoIndex + 1] = [@ EXCEPT !.completed = completed]]

\* _userTodos[msg.sender][todoIndex].completed = completed;
\* _userTodos[msg.sender][todoIndex].timestamp = block.timestamp
setCompleted(lists, sender, todoIndex, completed, timestamp) ==
    [lists EXCEPT ![sender][todoIndex + 1] =
        [@ EXCEPT !.completed = completed, !.timestamp = timestamp]]

\* variant: the new handle is allowed to the contract only
toggleTodoGrants_contractOnly(a, completed, sender) ==
    allowThis(a, completed)

\* the two permission grants of toggleTodo
toggleTodoGrants(a, completed, sender) ==
    allow(allowThis(a, completed), completed, sender)

\* emit TodoToggled(msg.sender, todoIndex, block.timestamp)
TodoToggled(sender, todoIndex, timestamp) ==
    [name |-> "TodoToggled", user |-> sender,
     todoIndex |-> todoIndex, timestamp |-> timestamp]

ToggleTodo(sender, todoIndex, encryptedCompleted, completedProof) ==
    /\ txCount < MaxTx
    /\ txCount' = txCount + 1
    /\ now' = now
    /\ UNCHANGED <<todoCount, nCreates>>
    /\ IF ~toggleInBounds(userTodos, sender, todoIndex)
       THEN /\ UNCHANGED <<userTodos, acl>>
            /\ lastCall' = [op |-> "toggleTodo", sender |-> sender,
                            todoIndex |-> todoIndex,
                            encryptedId |-> NoHandle,
                            encryptedCompleted |-> NoHandle,
                            status |-> "reverted",
                            reason |-> "Todo index out of bounds",
                            events |-> <<>>]
       ELSE IF ~fromExternalVerifies(encryptedCompleted, completedProof, sender)
       THEN /\ UNCHANGED <<userTodos, acl>>
            /\ lastCall' = [op |-> "toggleTodo", sender |-> sender,
                            todoIndex |-> todoIndex,
                            encryptedId |-> NoHandle,
                            encryptedCompleted |-> NoHandle,
                            status |-> "reverted",
                            reason |-> "Invalid input proof",
                            events |-> <<>>]
       ELSE IF todoIndex >= Len(userTodos[sender])
       THEN \* the array access _userTodos[msg.sender][todoIndex] panics
            /\ UNCHANGED <<userTodos, acl>>
            /\ lastCall' = [op |-> "toggleTodo", sender |-> sender,
                            todoIndex |-> todoIndex,
                            encryptedId |-> NoHandle,
                            encryptedCompleted |-> NoHandle,
                            status |-> "reverted",
                            reason |-> "Panic(0x32)",
                            events |-> <<>>]
       ELSE LET completed == fromExternal(encryptedCompleted)
            IN /\ userTodos' = setCompleted(userTodos, sender, todoIndex, completed, now)
               /\ acl' = toggleTodoGrants(acl, completed, sender)
               /\ lastCall' = [op |-> "toggleTodo", sender |-> sender,
                               todoIndex |-> todoIndex,
                               encryptedId |-> NoHandle,
                               encryptedCompleted |-> encryptedCompleted,
                               status |-> "ok", reason |-> "",
                               events |-> <<TodoToggled(sender, todoIndex, now)>>]

(***************************************************************************)
(* Blocks                                                                  *)
(***************************************************************************)
\* a new block is mined: block.timestamp advances
NewBlock ==
    /\ now < MaxTime
    /\ now' = now + 1
    /\ UNCHANGED <<userTodos, todoCount, acl, txCount, nCreates, lastCall>>

(***************************************************************************)
(* useTodoList: values of the browser session                              *)
(***************************************************************************)
\* address is undefined
NoAddress == "none"

\* message is undefined
NoMessage == <<>>

\* an empty localStorage map, an empty object
EmptyMap == <<>>

\* the calls of createTodo and toggleTodo that can be in flight together: the
\* hook starts a call whenever the page asks, whatever else is in flight
Slots == {1, 2}

\* no loadTodos in flight
Idle == [kind |-> "none"]

\* the texts typed into the dialog
Texts == {"", " ", "a"}

\* variant: nothing is trimmed
trim_keepsSpaces(text) == text

\* text.trim()
trim(text) == IF text = " " THEN "" ELSE text

\* a todo text of the list: what the user typed, or the placeholder
\* `Encrypted Todo #${index + 1}`
UserText(text) == <<text, 0>>
PlaceholderText(index) == <<"Encrypted Todo #", index + 1>>

\* hashTextToUint32: the low 32 bits of keccak256(text)
hashTextToUint32(text) == IF text = "a" THEN 1 ELSE 2

\* A handle as a JavaScript value: the SDK returns the bytes (Uint8Array),
\* ethers returns a hex string; a map key is a string.
sdkHandle(h) == [rep |-> "bytes", h |-> h]
ethersHandle(h) == [rep |-> "hex", h |-> h]

\* s.toLowerCase() of a hex string ("HEX" is a string with upper-case digits)
toLowerCase(handleValue) ==
    IF handleValue.rep = "HEX" THEN [rep |-> "hex", h |-> handleValue.h] ELSE handleValue

\* String(bytes): the array-string format "1,2,3" of old saved data
handleKey_arrayString(handleValue) ==
    IF handleValue.rep \in {"hex", "HEX"}
    THEN toLowerCase(handleValue)
    ELSE [rep |-> "arrayString", h |-> handleValue.h]

\* createTodo's conversion of handles[0] to the lower-case 0x hex string
handleKey(handleValue) ==
    IF handleValue.rep \in {"hex", "HEX"}
    THEN toLowerCase(handleValue)
    ELSE [rep |-> "hex", h |-> handleValue.h]

\* the handles the contract, the access list or a call in flight holds
handlesOfCall(call) ==
    IF call.kind = "createTodo"
    THEN {v.h : v \in {call.encryptedId[k] : k \in DOMAIN call.encryptedId}
                      \cup {call.encryptedCompleted[k] : k \in DOMAIN call.encryptedCompleted}}
    ELSE IF call.kind = "toggleTodo"
    THEN {v.h : v \in {call.newEncryptedCompleted[k] : k \in DOMAIN call.newEncryptedCompleted}}
    ELSE {}

liveHandles ==
    {p[1] : p \in acl} \cup UNION {handlesOfCall(ops[s]) : s \in DOMAIN ops}

\* createEncryptedInput(contractAddress, address).add32(value).encrypt(): a
\* handle for the value, bound to the address, that nothing holds yet
encrypt(value, addr) ==
    [user |-> addr, value |-> value,
     nonce |-> CHOOSE n \in Nonces :
                  /\ [user |-> addr, value |-> value, nonce |-> n] \notin liveHandles
                  /\ \A m \in 1..(n - 1) :
                        [user |-> addr, value |-> value, nonce |-> m] \in liveHandles]

\* map[key], undefined read as the default
mapGet(map, key, default) == IF key \in DOMAIN map THEN map[key] ELSE default

\* map[key] = value
mapSet(map, key, value) ==
    [k \in DOMAIN map \cup {key} |-> IF k = key THEN value ELSE map[k]]

\* getTextMap(): the object stored under todo_text_map_<address>, an empty
\* object when no address is connected
getTextMap(storage, addr) ==
    IF addr = NoAddress THEN EmptyMap ELSE storage[addr]

\* variant: the key has no address suffix, one map serves every address
saveTextMap_sharedKey(storage, addr, map) ==
    IF addr = NoAddress THEN storage ELSE [u \in DOMAIN storage |-> map]

\* saveTextMap(map): stored under todo_text_map_<address>, nothing is stored
\* when no address is connected
saveTextMap(storage, addr, map) ==
    IF addr = NoAddress THEN storage ELSE [storage EXCEPT ![addr] = map]

\* getCompletedMap(): the object stored under todo_completed_map_<address>
getCompletedMap(storage, addr) ==
    IF addr = NoAddress THEN EmptyMap ELSE storage[addr]

\* saveCompletedMap(map): stored under todo_completed_map_<address>
saveCompletedMap(storage, addr, map) ==
    IF addr = NoAddress THEN storage ELSE [storage EXCEPT ![addr] = map]

\* the hook right after it is mounted, no wallet connected
HookMounted ==
    /\ address = NoAddress
    /\ ready = FALSE
    /\ todos = <<>>
    /\ isLoading = FALSE
    /\ isDecrypting = FALSE
    /\ message = NoMessage
    /\ ops = <<>>
    /\ loader = Idle
    /\ reloadPending = {}
    /\ closureTodos = <<>>
    /\ settled = [call |-> "none", outcome |-> "none"]
    /\ sessionTx = 0

(***************************************************************************)
(* useTodoList: the wallet and the SDK around the hook                     *)
(***************************************************************************)
\* the variables no wallet event changes
sessionFrame ==
    UNCHANGED <<contractAddress, accounts, maxInFlight, isLoading, isDecrypting, message, textMap,
                completedMap, ops, loader, settled>>

\* the wallet connects an account; signer, provider and FHEVM instance follow
\* later
Connect(u) ==
    /\ address = NoAddress
    /\ u \in accounts
    /\ address' = u
    /\ ready' = FALSE
    /\ todos' = todos
    /\ closureTodos' = todos
    /\ reloadPending' = reloadPending
    /\ sessionFrame
    /\ UNCHANGED <<chainVars, sessionTx>>

\* setupEthers and useFhevm finish: every prerequisite is set, the callbacks
\* are memoized again over the current render, and the effect calls loadTodos
BecomeReady ==
    /\ contractAddress
    /\ address # NoAddress
    /\ ~ready
    /\ ready' = TRUE
    /\ address' = address
    /\ todos' = todos
    /\ closureTodos' = todos
    /\ reloadPending' = reloadPending \cup {address}
    /\ sessionFrame
    /\ UNCHANGED <<chainVars, sessionTx>>

\* the wallet disconnects: address, signer, provider and instance are unset and
\* the callbacks memoized again; the list, the calls in flight and the timers
\* stay
Disconnect ==
    /\ address # NoAddress
    /\ address' = NoAddress
    /\ ready' = FALSE
    /\ todos' = todos
    /\ closureTodos' = todos
    /\ reloadPending' = reloadPending
    /\ sessionFrame
    /\ UNCHANGED <<chainVars, sessionTx>>

(***************************************************************************)
(* useTodoList: createTodo                                                 *)
(***************************************************************************)
\* the call at place s of the calls in flight
inFlight(s, kind, pc) == s \in DOMAIN ops /\ ops[s].kind = kind /\ ops[s].pc = pc

\* the calls in flight without the one at place s
without(s) == SubSeq(ops, 1, s - 1) \o SubSeq(ops, s + 1, Len(ops))

\* a call settles without having started its work
settleEarly(call, outcome, msg) ==
    /\ message' = msg
    /\ settled' = [call |-> call, outcome |-> outcome]
    /\ UNCHANGED <<walletVars, isDecrypting, todos, isLoading,
                   textMap, completedMap, ops, loader, reloadPending, closureTodos>>
    /\ UNCHANGED <<chainVars, sessionTx>>

\* catch and finally of createTodo and toggleTodo: the message is set, the
\* error is thrown again, isLoading is reset
catchAndRethrow(s, reason) ==
    /\ message' = <<"Error: ", reason>>
    /\ isLoading' = FALSE
    /\ ops' = without(s)
    /\ settled' = [call |-> ops[s].kind, outcome |-> "threw"]
    /\ UNCHANGED <<walletVars, isDecrypting, todos, textMap,
                   completedMap, loader, reloadPending, closureTodos>>
    /\ UNCHANGED <<chainVars, sessionTx>>

\* an awaited step goes on: only the call's own record and the message change
stepOn(s, record, msg) ==
    /\ ops' = [ops EXCEPT ![s] = record]
    /\ message' = msg
    /\ UNCHANGED <<walletVars, isDecrypting, todos, isLoading,
                   textMap, completedMap, loader, reloadPending, closureTodos, settled>>

\* variant: a missing signer, instance, address or provider is reported by the
\* message only, the call returns
StartCreate_returnsWhenNotReady(text) ==
    /\ Len(ops) < maxInFlight
    /\ IF trim(text) = ""
       THEN settleEarly("createTodo", "returned", <<"Todo text cannot be empty">>)
       ELSE IF ~contractAddress
       THEN settleEarly("createTodo", "threw",
                        <<"Contract address not configured. Please set VITE_CONTRACT_ADDRESS in .env.local">>)
       ELSE IF ~ready \/ address = NoAddress
       THEN settleEarly("createTodo", "returned",
                        <<"Wallet not connected or FHEVM not initialized">>)
       ELSE /\ isLoading' = TRUE
            /\ message' = <<"Encrypting todo...">>
            /\ ops' = Append(ops,
                          [kind |-> "createTodo", pc |-> "encryptId", addr |-> address,
                           text |-> text, encryptedId |-> <<>>,
                           encryptedCompleted |-> <<>>])
            /\ UNCHANGED <<walletVars, isDecrypting, todos, textMap,
                           completedMap, loader, reloadPending, closureTodos, settled>>
            /\ UNCHANGED <<chainVars, sessionTx>>

\* createTodo(text) up to its first await
StartCreate(text) ==
    /\ Len(ops) < maxInFlight
    /\ IF trim(text) = ""
       THEN settleEarly("createTodo", "returned", <<"Todo text cannot be empty">>)
       ELSE IF ~contractAddress
       THEN settleEarly("createTodo", "threw",
                        <<"Contract address not configured. Please set VITE_CONTRACT_ADDRESS in .env.local">>)
       ELSE IF ~ready \/ address = NoAddress
       THEN settleEarly("createTodo", "threw",
                        <<"Wallet not connected or FHEVM not initialized">>)
       ELSE /\ isLoading' = TRUE
            /\ message' = <<"Encrypting todo...">>
            /\ ops' = Append(ops,
                          [kind |-> "createTodo", pc |-> "encryptId", addr |-> address,
                           text |-> text, encryptedId |-> <<>>,
                           encryptedCompleted |-> <<>>])
            /\ UNCHANGED <<walletVars, isDecrypting, todos, textMap,
                           completedMap, loader, reloadPending, closureTodos, settled>>
            /\ UNCHANGED <<chainVars, sessionTx>>

\* await encryptedIdInput.encrypt() and the validation of its handles
CreateEncryptId(s) ==
    /\ inFlight(s, "createTodo", "encryptId")
    /\ \/ catchAndRethrow(s, "external error")
       \/ catchAndRethrow(s, "Encryption failed: Invalid handle returned")
       \/ /\ stepOn(s, [ops[s] EXCEPT
                          !.pc = "encryptCompleted",
                          !.encryptedId = <<sdkHandle(encrypt(hashTextToUint32(ops[s].text),
                                                              ops[s].addr))>>],
                    message)
          /\ UNCHANGED <<chainVars, sessionTx>>

\* await encryptedCompletedInput.encrypt() of 0 and the validation
CreateEncryptCompleted(s) ==
    /\ inFlight(s, "createTodo", "encryptCompleted")
    /\ \/ catchAndRethrow(s, "external error")
       \/ catchAndRethrow(s, "Encryption failed: Invalid completion handle returned")
       \/ /\ stepOn(s, [ops[s] EXCEPT
                          !.pc = "submit",
                          !.encryptedCompleted = <<sdkHandle(encrypt(0, ops[s].addr))>>],
                    <<"Submitting to blockchain...">>)
          /\ UNCHANGED <<chainVars, sessionTx>>

\* variant: the text is saved as soon as the transaction is sent
CreateSubmit_savesEarly(s) ==
    /\ inFlight(s, "createTodo", "submit")
    /\ \/ catchAndRethrow(s, "external error")
       \/ /\ sessionTx < MaxSessionTx
          /\ sessionTx' = sessionTx + 1
          /\ CreateTodo(ops[s].addr, ops[s].encryptedId[1].h,
                        ops[s].encryptedCompleted[1].h, "valid", "valid")
          /\ ops' = [ops EXCEPT ![s].pc = "wait"]
          /\ textMap' = [textMap EXCEPT ![ops[s].addr] =
                            mapSet(@, handleKey(ops[s].encryptedId[1]), ops[s].text)]
          /\ UNCHANGED <<walletVars, isDecrypting, todos, isLoading, message, completedMap, loader,
                         reloadPending, closureTodos, settled>>

\* await contract.createTodo(handles[0], handles[0], inputProof, inputProof):
\* the wallet refuses, or the transaction is sent and mined
CreateSubmit(s) ==
    /\ inFlight(s, "createTodo", "submit")
    /\ \/ catchAndRethrow(s, "external error")
       \/ /\ sessionTx < MaxSessionTx
          /\ sessionTx' = sessionTx + 1
          /\ CreateTodo(ops[s].addr, ops[s].encryptedId[1].h,
                        ops[s].encryptedCompleted[1].h, "valid", "valid")
          /\ stepOn(s, [ops[s] EXCEPT !.pc = "wait"], message)

\* textMap[handle] = text; saveTextMap(textMap), under the captured address
saveText(map, addr, handleValue, text) ==
    saveTextMap(map, addr, mapSet(getTextMap(map, addr), handleKey(handleValue), text))

\* await tx.wait(), then the text mapping, the message and the reload timer
CreateReceipt(s) ==
    /\ inFlight(s, "createTodo", "wait")
    /\ \/ catchAndRethrow(s, "external error")
       \/ /\ textMap' = saveText(textMap, ops[s].addr, ops[s].encryptedId[1], ops[s].text)
          /\ message' = <<"Todo created successfully!">>
          /\ reloadPending' = reloadPending \cup {ops[s].addr}
          /\ isLoading' = FALSE
          /\ ops' = without(s)
          /\ settled' = [call |-> "createTodo", outcome |-> "returned"]
          /\ UNCHANGED <<walletVars, isDecrypting, todos, completedMap, loader,
                         closureTodos>>
          /\ UNCHANGED <<chainVars, sessionTx>>

(***************************************************************************)
(* useTodoList: loadTodos                                                  *)
(***************************************************************************)
\* loadTodos() up to its first await; its closure holds the address and the
\* prerequisites of the render that scheduled it
StartLoad(u) ==
    /\ u \in reloadPending
    /\ loader = Idle
    /\ reloadPending' = reloadPending \ {u}
    /\ isLoading' = TRUE
    /\ loader' = [kind |-> "loadTodos", pc |-> "count", addr |-> u]
    /\ UNCHANGED <<walletVars, isDecrypting, todos, message, textMap,
                   completedMap, ops, closureTodos, settled>>
    /\ UNCHANGED <<chainVars, sessionTx>>

\* loadTodos settles: finally resets isLoading, nothing is thrown to the caller
loadSettles(list, msg) ==
    /\ todos' = list
    /\ message' = msg
    /\ isLoading' = FALSE
    /\ loader' = Idle
    /\ UNCHANGED <<walletVars, isDecrypting, textMap,
                   completedMap, ops, reloadPending, closureTodos, settled>>
    /\ UNCHANGED <<chainVars, sessionTx>>

\* await contract.getTodoCount(address); an empty list is set at once,
\* otherwise the text map is read before the todos are fetched
LoadCount ==
    /\ loader.kind = "loadTodos" /\ loader.pc = "count"
    /\ \/ loadSettles(todos, <<"Error loading todos: ", "external error">>)
       \/ /\ getTodoCount(loader.addr) = 0
          /\ loadSettles(<<>>, message)
       \/ /\ getTodoCount(loader.addr) # 0
          /\ loader' = [kind |-> "loadTodos", pc |-> "fetch", addr |-> loader.addr,
                        count |-> getTodoCount(loader.addr), i |-> 0,
                        todoData |-> <<>>, textMap |-> getTextMap(textMap, loader.addr)]
          /\ UNCHANGED <<walletVars, isDecrypting, todos, isLoading, message,
                         textMap, completedMap, ops, reloadPending, closureTodos,
                         settled>>
          /\ UNCHANGED <<chainVars, sessionTx>>

\* the entry of todoData for the todo fetched at index i
fetched(user, i) ==
    [index |-> i,
     idHandle |-> toLowerCase(ethersHandle(getTodo(user, i).id)),
     completedHandle |-> toLowerCase(ethersHandle(getTodo(user, i).completed)),
     timestamp |-> getTodo(user, i).timestamp]

\* the Todo shown for an entry of todoData: text and completed flag come from
\* the local maps, nothing is decrypted
loadedTodo(data, texts, completeds) ==
    [index |-> data.index,
     text |-> IF data.idHandle \in DOMAIN texts
              THEN UserText(texts[data.idHandle])
              ELSE PlaceholderText(data.index),
     encryptedId |-> data.idHandle,
     encryptedCompleted |-> data.completedHandle,
     completed |-> mapGet(completeds, data.idHandle, FALSE),
     timestamp |-> data.timestamp,
     isDecrypted |-> data.idHandle \in DOMAIN texts]

\* where a todo goes in a list sorted by timestamp, newest first, behind the
\* todos of the same timestamp (Array.prototype.sort is stable)
RECURSIVE insertByTimestamp(_, _)
insertByTimestamp(sorted, todo) ==
    IF sorted = <<>> THEN <<todo>>
    ELSE IF Head(sorted).timestamp >= todo.timestamp
    THEN <<Head(sorted)>> \o insertByTimestamp(Tail(sorted), todo)
    ELSE <<todo>> \o sorted

\* loadedTodos.sort((a, b) => b.timestamp - a.timestamp)
RECURSIVE sortByTimestamp(_)
sortByTimestamp(list) ==
    IF list = <<>> THEN <<>>
    ELSE insertByTimestamp(sortByTimestamp(SubSeq(list, 1, Len(list) - 1)),
                           list[Len(list)])

\* the list loadTodos sets from the fetched todoData
loadedTodos(todoData, texts, completeds) ==
    sortByTimestamp([k \in 1..Len(todoData) |->
                        loadedTodo(todoData[k], texts, completeds)])

\* await contract.getTodo(address, i) of the loop, a failed fetch skips the
\* todo; after the last one the list is built, sorted and set
LoadFetch ==
    /\ loader.kind = "loadTodos" /\ loader.pc = "fetch"
    /\ \E fetchOk \in BOOLEAN :
        LET todoData == IF fetchOk
                        THEN Append(loader.todoData, fetched(loader.addr, loader.i))
                        ELSE loader.todoData
        IN  IF loader.i + 1 < loader.count
            THEN /\ loader' = [loader EXCEPT !.i = @ + 1, !.todoData = todoData]
                 /\ UNCHANGED <<walletVars, isDecrypting, todos, isLoading,
                                message, textMap, completedMap, ops, reloadPending,
                                closureTodos, settled>>
                 /\ UNCHANGED <<chainVars, sessionTx>>
            ELSE loadSettles(loadedTodos(todoData, loader.textMap,
                                         getCompletedMap(completedMap, loader.addr)),
                             message)

(***************************************************************************)
(* useTodoList: toggleTodo                                                 *)
(***************************************************************************)
\* variant: a missing prerequisite is thrown to the caller, as createTodo does
StartToggle_throwsWhenNotReady(contractIndex) ==
    /\ Len(ops) < maxInFlight
    /\ IF ~contractAddress \/ ~ready \/ address = NoAddress
       THEN settleEarly("toggleTodo", "threw",
                        <<"Missing requirements for toggling todo">>)
       ELSE /\ isLoading' = TRUE
            /\ message' = <<"Fetching current todo status...">>
            /\ ops' = Append(ops,
                          [kind |-> "toggleTodo", pc |-> "getTodo", addr |-> address,
                           contractIndex |-> contractIndex, todos |-> closureTodos,
                           completedHandle |-> <<>>, newCompleted |-> 0,
                           newEncryptedCompleted |-> <<>>])
            /\ UNCHANGED <<walletVars, isDecrypting, todos, textMap,
                           completedMap, loader, reloadPending, closureTodos, settled>>
            /\ UNCHANGED <<chainVars, sessionTx>>

\* toggleTodo(contractIndex) up to its first await
StartToggle(contractIndex) ==
    /\ Len(ops) < maxInFlight
    /\ IF ~contractAddress \/ ~ready \/ address = NoAddress
       THEN settleEarly("toggleTodo", "returned",
                        <<"Missing requirements for toggling todo">>)
       ELSE /\ isLoading' = TRUE
            /\ message' = <<"Fetching current todo status...">>
            /\ ops' = Append(ops,
                          [kind |-> "toggleTodo", pc |-> "getTodo", addr |-> address,
                           contractIndex |-> contractIndex, todos |-> closureTodos,
                           completedHandle |-> <<>>, newCompleted |-> 0,
                           newEncryptedCompleted |-> <<>>])
            /\ UNCHANGED <<walletVars, isDecrypting, todos, textMap,
                           completedMap, loader, reloadPending, closureTodos, settled>>
            /\ UNCHANGED <<chainVars, sessionTx>>

\* await contract.getTodo(address, contractIndex)
ToggleGetTodo(s) ==
    /\ inFlight(s, "toggleTodo", "getTodo")
    /\ LET call == getTodoCall(ops[s].addr, ops[s].contractIndex)
       IN  \/ catchAndRethrow(s, "external error")
           \/ /\ call.status = "reverted"
              /\ catchAndRethrow(s, call.reason)
           \/ /\ call.status = "ok"
              /\ stepOn(s, [ops[s] EXCEPT
                              !.pc = "decrypt",
                              !.completedHandle =
                                  <<toLowerCase(ethersHandle(call.todo.completed))>>],
                        <<"Decrypting current status...">>)
              /\ UNCHANGED <<chainVars, sessionTx>>

\* completed = Number(decryptedResult[handle] || 0) === 1 and
\* newCompleted = currentCompleted ? 0 : 1
newCompletedOf(decrypted) == IF decrypted = 1 THEN 0 ELSE 1

\* await decryptTodo("", completedHandle, ...): the signature, then the user
\* decryption of the handle read from the contract
ToggleDecrypt(s) ==
    /\ inFlight(s, "toggleTodo", "decrypt")
    /\ \/ catchAndRethrow(s, "external error")
       \/ /\ userDecrypt(ops[s].completedHandle[1].h, ops[s].addr) = -1
          /\ catchAndRethrow(s, "external error")
       \/ /\ userDecrypt(ops[s].completedHandle[1].h, ops[s].addr) # -1
          /\ stepOn(s, [ops[s] EXCEPT
                          !.pc = "encrypt",
                          !.newCompleted =
                              newCompletedOf(userDecrypt(ops[s].completedHandle[1].h,
                                                         ops[s].addr))],
                    <<"Encrypting new status...">>)
          /\ UNCHANGED <<chainVars, sessionTx>>

\* await encryptedCompletedInput.encrypt() of newCompleted; the handles are
\* not validated here
ToggleEncrypt(s) ==
    /\ inFlight(s, "toggleTodo", "encrypt")
    /\ \/ catchAndRethrow(s, "external error")
       \/ /\ \E handles \in {<<>>, <<sdkHandle(encrypt(ops[s].newCompleted,
                                                      ops[s].addr))>>} :
               stepOn(s, [ops[s] EXCEPT !.pc = "submit",
                                        !.newEncryptedCompleted = handles],
                      <<"Submitting to blockchain...">>)
          /\ UNCHANGED <<chainVars, sessionTx>>

\* await contractWithSigner.toggleTodo(contractIndex, handles[0], inputProof):
\* handles[0] is undefined, or the wallet refuses, or the transaction is sent
\* and mined
ToggleSubmit(s) ==
    /\ inFlight(s, "toggleTodo", "submit")
    /\ \/ /\ ops[s].newEncryptedCompleted = <<>>
          /\ catchAndRethrow(s, "external error")
       \/ /\ ops[s].newEncryptedCompleted # <<>>
          /\ catchAndRethrow(s, "external error")
       \/ /\ ops[s].newEncryptedCompleted # <<>>
          /\ sessionTx < MaxSessionTx
          /\ sessionTx' = sessionTx + 1
          /\ ToggleTodo(ops[s].addr, ops[s].contractIndex,
                        ops[s].newEncryptedCompleted[1].h, "valid")
          /\ stepOn(s, [ops[s] EXCEPT !.pc = "wait"], message)

\* todos.find(t => t.index === contractIndex)?.completed, undefined read as
\* false
findCompleted(list, contractIndex) ==
    \E k \in 1..Len(list) :
        /\ list[k].index = contractIndex
        /\ list[k].completed
        /\ \A j \in 1..(k - 1) : list[j].index # contractIndex

\* prevTodos.map(...): the todo of that index gets the new flag
markCompleted(prevTodos, contractIndex, newCompletedStatus) ==
    [k \in 1..Len(prevTodos) |->
        IF prevTodos[k].index = contractIndex
        THEN [prevTodos[k] EXCEPT !.completed = newCompletedStatus]
        ELSE prevTodos[k]]

\* the updater's completedMap[todo.encryptedId.toLowerCase()] = flag and
\* saveCompletedMap(completedMap), for every todo of that index
RECURSIVE saveCompleted(_, _, _, _, _)
saveCompleted(map, prevTodos, k, contractIndex, newCompletedStatus) ==
    IF k > Len(prevTodos) THEN map
    ELSE saveCompleted(IF prevTodos[k].index = contractIndex
                       THEN mapSet(map, toLowerCase(prevTodos[k].encryptedId),
                                   newCompletedStatus)
                       ELSE map,
                       prevTodos, k + 1, contractIndex, newCompletedStatus)

\* await tx.wait(), then the update of the local list from the todos the
\* callback closed over, the completed map and the reload timer
ToggleReceipt(s) ==
    /\ inFlight(s, "toggleTodo", "wait")
    /\ \/ catchAndRethrow(s, "external error")
       \/ LET newCompletedStatus == ~findCompleted(ops[s].todos, ops[s].contractIndex)
          IN  /\ message' = <<"Todo toggled successfully!">>
              /\ todos' = markCompleted(todos, ops[s].contractIndex, newCompletedStatus)
              /\ completedMap' =
                    saveCompletedMap(completedMap, ops[s].addr,
                        saveCompleted(getCompletedMap(completedMap, ops[s].addr), todos, 1,
                                      ops[s].contractIndex, newCompletedStatus))
              /\ reloadPending' = reloadPending \cup {ops[s].addr}
              /\ isLoading' = FALSE
              /\ ops' = without(s)
              /\ settled' = [call |-> "toggleTodo", outcome |-> "returned"]
              /\ UNCHANGED <<walletVars, isDecrypting, textMap, loader,
                             closureTodos>>
              /\ UNCHANGED <<chainVars, sessionTx>>

(***************************************************************************)
(* useTodoList: decryptTodos                                               *)
(***************************************************************************)
\* the handles collected for the batch decryption: the id and the completion
\* handle of every todo of the list
handleContractPairs(list) ==
    {list[k].encryptedId : k \in DOMAIN list}
        \cup {list[k].encryptedCompleted : k \in DOMAIN list}

\* catch and finally of decryptTodos: the message is set, the error is thrown
\* again, isDecrypting is reset
decryptCatch(s, reason) ==
    /\ message' = <<"Error decrypting todos: ", reason>>
    /\ isDecrypting' = FALSE
    /\ ops' = without(s)
    /\ settled' = [call |-> "decryptTodos", outcome |-> "threw"]
    /\ UNCHANGED <<walletVars, todos, isLoading, textMap, completedMap, loader,
                   reloadPending, closureTodos>>
    /\ UNCHANGED <<chainVars, sessionTx>>

\* decryptTodos() up to its first await; the callback is memoized over todos,
\* so it holds the list of the render that calls it
StartDecrypt ==
    /\ Len(ops) < maxInFlight
    /\ IF ~contractAddress \/ ~ready \/ address = NoAddress
       THEN settleEarly("decryptTodos", "returned",
                        <<"Missing requirements for decryption">>)
       ELSE IF Len(todos) = 0
       THEN settleEarly("decryptTodos", "returned", <<"No todos to decrypt">>)
       ELSE IF handleContractPairs(todos) = {}
       THEN /\ message' = <<"Error decrypting todos: ", "No handles to decrypt">>
            /\ isDecrypting' = FALSE
            /\ settled' = [call |-> "decryptTodos", outcome |-> "threw"]
            /\ UNCHANGED <<walletVars, todos, isLoading, textMap, completedMap, ops,
                           loader, reloadPending, closureTodos>>
            /\ UNCHANGED <<chainVars, sessionTx>>
       ELSE /\ isDecrypting' = TRUE
            /\ message' = <<"Decrypting todos...">>
            /\ ops' = Append(ops,
                          [kind |-> "decryptTodos", pc |-> "sign", addr |-> address,
                           todos |-> todos])
            /\ UNCHANGED <<walletVars, todos, isLoading, textMap, completedMap, loader,
                           reloadPending, closureTodos, settled>>
            /\ UNCHANGED <<chainVars, sessionTx>>

\* await ethersSigner.signTypedData(...): the user signs or refuses
DecryptSign(s) ==
    /\ inFlight(s, "decryptTodos", "sign")
    /\ \/ decryptCatch(s, "external error")
       \/ /\ ops' = [ops EXCEPT ![s].pc = "userDecrypt"]
          /\ UNCHANGED <<walletVars, todos, isLoading, isDecrypting, message, textMap,
                         completedMap, loader, reloadPending, closureTodos, settled>>
          /\ UNCHANGED <<chainVars, sessionTx>>

\* s.toUpperCase() of a hex string, the prefix included
toUpperCase(handleValue) == [rep |-> "0XHEX", h |-> handleValue.h]

\* the key bytes.join(',') of a hex string
arrayStringKey(handleValue) == [rep |-> "arrayString", h |-> handleValue.h]

\* the text of a todo after decryption: the text map under the id handle in
\* its formats, then `Todo #${index + 1}` for a placeholder, then its text
decryptedText(todo, texts) ==
    IF toLowerCase(todo.encryptedId) \in DOMAIN texts
    THEN UserText(texts[toLowerCase(todo.encryptedId)])
    ELSE IF todo.encryptedId \in DOMAIN texts
    THEN UserText(texts[todo.encryptedId])
    ELSE IF toUpperCase(todo.encryptedId) \in DOMAIN texts
    THEN UserText(texts[toUpperCase(todo.encryptedId)])
    ELSE IF arrayStringKey(todo.encryptedId) \in DOMAIN texts
    THEN UserText(texts[arrayStringKey(todo.encryptedId)])
    ELSE IF todo.text[1] = "Encrypted Todo #"
    THEN <<"Todo #", todo.index + 1>>
    ELSE todo.text

\* variant: the status is looked up under the id handle
decryptedCompleted_readsId(todo, user) ==
    userDecrypt(todo.encryptedId.h, user) = 1

\* completed = Number(completedValue || 0) === 1
decryptedCompleted(todo, user) ==
    userDecrypt(todo.encryptedCompleted.h, user) = 1

\* todos.map(...): every todo with its text, its decrypted flag and
\* isDecrypted
updatedTodos(list, texts, user) ==
    [k \in DOMAIN list |->
        [list[k] EXCEPT !.text = decryptedText(list[k], texts),
                        !.completed = decryptedCompleted(list[k], user),
                        !.isDecrypted = TRUE]]

\* completedMap[todo.encryptedId.toLowerCase()] = completed, todo after todo
RECURSIVE decryptedCompletedMap(_, _, _, _)
decryptedCompletedMap(map, list, k, user) ==
    IF k > Len(list) THEN map
    ELSE decryptedCompletedMap(mapSet(map, toLowerCase(list[k].encryptedId),
                                      decryptedCompleted(list[k], user)),
                               list, k + 1, user)

\* await userDecrypt(handleContractPairs, ...) of the whole batch, then the
\* list and the completed map are updated from the list the call started with
DecryptUserDecrypt(s) ==
    /\ inFlight(s, "decryptTodos", "userDecrypt")
    /\ \/ decryptCatch(s, "external error")
       \/ /\ \E v \in handleContractPairs(ops[s].todos) : userDecrypt(v.h, ops[s].addr) = -1
          /\ decryptCatch(s, "external error")
       \/ /\ \A v \in handleContractPairs(ops[s].todos) : userDecrypt(v.h, ops[s].addr) # -1
          /\ todos' = updatedTodos(ops[s].todos, getTextMap(textMap, ops[s].addr),
                                   ops[s].addr)
          /\ completedMap' =
                saveCompletedMap(completedMap, ops[s].addr,
                    decryptedCompletedMap(getCompletedMap(completedMap, ops[s].addr),
                                          ops[s].todos, 1, ops[s].addr))
          /\ message' = <<"Todos decrypted successfully!">>
          /\ isDecrypting' = FALSE
          /\ ops' = without(s)
          /\ settled' = [call |-> "decryptTodos", outcome |-> "returned"]
          /\ UNCHANGED <<walletVars, isLoading, textMap, loader, reloadPending,
                         closureTodos>>
          /\ UNCHANGED <<chainVars, sessionTx>>

(***************************************************************************)
(* Index: the page around the hook                                         *)
(***************************************************************************)
\* handleAddTodo(category, text): without a connected wallet an error toast
\* and no call of the hook, otherwise createTodo(text); the toast that follows
\* is success when the call returns and error when it throws
handleAddTodo(text) ==
    IF address = NoAddress
    THEN UNCHANGED vars
    ELSE StartCreate(text)

\* the dialog of the connected branch of the page calls onAddActivity
onAddActivity(text) ==
    /\ contractAddress
    /\ address # NoAddress
    /\ handleAddTodo(text)

\* handleToggleTodo(index): as handleAddTodo, with toggleTodo(index)
handleToggleTodo(index) ==
    IF address = NoAddress
    THEN UNCHANGED vars
    ELSE StartToggle(index)

\* a click on a todo of the list, which the connected branch of the page
\* shows while isLoading is false: todos.find(t => t.id === id), then
\* handleToggleTodo(todo.index)
onActivityToggle(index) ==
    /\ contractAddress
    /\ address # NoAddress
    /\ ~isLoading
    /\ \E k \in DOMAIN todos : todos[k].index = index
    /\ handleToggleTodo(index)

(***************************************************************************)
(* Specification of the contract                                           *)
(***************************************************************************)
\* the contract after deployment
ChainInit ==
    /\ userTodos = [u \in Users |-> <<>>]
    /\ todoCount = [u \in Users |-> 0]
    /\ acl = {}
    /\ now = 1
    /\ txCount = 0
    /\ nCreates = [u \in Users |-> 0]
    /\ lastCall = [op |-> "none", sender |-> "none", todoIndex |-> 0,
                   encryptedId |-> NoHandle, encryptedCompleted |-> NoHandle,
                   status |-> "ok", reason |-> "", events |-> <<>>]

Init ==
    /\ ChainInit
    /\ HookMounted
    /\ textMap = [u \in Users |-> EmptyMap]
    /\ completedMap = [u \in Users |-> EmptyMap]
    /\ contractAddress = TRUE
    /\ accounts = Users
    /\ maxInFlight = 1

Next ==
    \/ /\ \E sender \in Users, encryptedId \in IdHandles, encryptedCompleted \in Handles,
             idProof \in InputProofs, completedProof \in InputProofs :
             CreateTodo(sender, encryptedId, encryptedCompleted, idProof, completedProof)
       /\ UNCHANGED hookVars
    \/ /\ \E sender \in Users, todoIndex \in TodoIndexes, encryptedCompleted \in Handles,
             completedProof \in InputProofs :
             ToggleTodo(sender, todoIndex, encryptedCompleted, completedProof)
       /\ UNCHANGED hookVars
    \/ NewBlock /\ UNCHANGED hookVars

Spec == Init /\ [][Next]_vars

(***************************************************************************)
(* Specification of a browser session                                      *)
(***************************************************************************)
\* a deployed contract nobody used yet, and a page just opened in a browser
\* that never saw it, with or without VITE_CONTRACT_ADDRESS; the user waits
\* for a call to settle before the next one
HookInit ==
    /\ ChainInit
    /\ HookMounted
    /\ textMap = [u \in Users |-> EmptyMap]
    /\ completedMap = [u \in Users |-> EmptyMap]
    /\ contractAddress \in BOOLEAN
    /\ accounts = {"alice"}
    /\ maxInFlight = 1

HookNext ==
    \/ \E u \in Users : Connect(u)
    \/ BecomeReady
    \/ \E text \in Texts : StartCreate(text)
    \/ \E s \in Slots : CreateEncryptId(s)
    \/ \E s \in Slots : CreateEncryptCompleted(s)
    \/ \E s \in Slots : CreateSubmit(s)
    \/ \E s \in Slots : CreateReceipt(s)
    \/ \E u \in Users : StartLoad(u)
    \/ LoadCount
    \/ LoadFetch
    \/ \E contractIndex \in TodoIndexes : StartToggle(contractIndex)
    \/ \E s \in Slots : ToggleGetTodo(s)
    \/ \E s \in Slots : ToggleDecrypt(s)
    \/ \E s \in Slots : ToggleEncrypt(s)
    \/ \E s \in Slots : ToggleSubmit(s)
    \/ \E s \in Slots : ToggleReceipt(s)

HookSpec == HookInit /\ [][HookNext]_vars

(***************************************************************************)
(* Specification of a browser session with overlapping calls               *)
(***************************************************************************)
\* the handles of the todo "a" that alice created in an earlier session
EarlierId == [user |-> "alice", value |-> hashTextToUint32("a"), nonce |-> 1]
EarlierCompleted == [user |-> "alice", value |-> 0, nonce |-> 1]

\* the page opened again by alice after that session: the contract holds her
\* todo, local storage its text; she does not wait for a call to settle
OverlapInit ==
    /\ userTodos = pushTodo([u \in Users |-> <<>>], "alice",
                            newTodo(EarlierId, EarlierCompleted, 1))
    /\ todoCount = incTodoCount([u \in Users |-> 0], "alice")
    /\ acl = createTodoGrants({}, EarlierId, EarlierCompleted, "alice")
    /\ now = 1
    /\ txCount = 1
    /\ nCreates = [u \in Users |-> IF u = "alice" THEN 1 ELSE 0]
    /\ lastCall = [op |-> "createTodo", sender |-> "alice", todoIndex |-> 0,
                   encryptedId |-> EarlierId, encryptedCompleted |-> EarlierCompleted,
                   status |-> "ok", reason |-> "",
                   events |-> <<TodoCreated(todoCount, "alice", 1)>>]
    /\ HookMounted
    /\ textMap = saveText([u \in Users |-> EmptyMap], "alice", sdkHandle(EarlierId), "a")
    /\ completedMap = [u \in Users |-> EmptyMap]
    /\ contractAddress = TRUE
    /\ accounts = {"alice"}
    /\ maxInFlight = 2

\* she only looks at her list and toggles
OverlapNext ==
    \/ \E u \in Users : Connect(u)
    \/ BecomeReady
    \/ \E u \in Users : StartLoad(u)
    \/ LoadCount
    \/ LoadFetch
    \/ \E contractIndex \in TodoIndexes : StartToggle(contractIndex)
    \/ \E s \in Slots : ToggleGetTodo(s)
    \/ \E s \in Slots : ToggleDecrypt(s)
    \/ \E s \in Slots : ToggleEncrypt(s)
    \/ \E s \in Slots : ToggleSubmit(s)
    \/ \E s \in Slots : ToggleReceipt(s)

OverlapSpec == OverlapInit /\ [][OverlapNext]_vars

(***************************************************************************)
(* Specification of a browser session that decrypts the list               *)
(***************************************************************************)
\* the handles of a second todo "a" of that earlier session, one block later
LaterId == [user |-> "alice", value |-> hashTextToUint32("a"), nonce |-> 2]
LaterCompleted == [user |-> "alice", value |-> 0, nonce |-> 2]

\* the page opened again by alice after the earlier session, with or without
\* VITE_CONTRACT_ADDRESS: the contract holds her two todos, local storage
\* their texts; she waits for a call to settle before the next one
DecryptInit ==
    /\ userTodos = pushTodo(pushTodo([u \in Users |-> <<>>], "alice",
                                     newTodo(EarlierId, EarlierCompleted, 1)),
                            "alice", newTodo(LaterId, LaterCompleted, 2))
    /\ todoCount = incTodoCount(incTodoCount([u \in Users |-> 0], "alice"), "alice")
    /\ acl = createTodoGrants(createTodoGrants({}, EarlierId, EarlierCompleted, "alice"),
                              LaterId, LaterCompleted, "alice")
    /\ now = 2
    /\ txCount = 2
    /\ nCreates = [u \in Users |-> IF u = "alice" THEN 2 ELSE 0]
    /\ lastCall = [op |-> "createTodo", sender |-> "alice", todoIndex |-> 1,
                   encryptedId |-> LaterId, encryptedCompleted |-> LaterCompleted,
                   status |-> "ok", reason |-> "",
                   events |-> <<TodoCreated(todoCount, "alice", 2)>>]
    /\ HookMounted
    /\ textMap = saveText(saveText([u \in Users |-> EmptyMap], "alice",
                                   sdkHandle(EarlierId), "a"),
                          "alice", sdkHandle(LaterId), "a")
    /\ completedMap = [u \in Users |-> EmptyMap]
    /\ contractAddress \in BOOLEAN
    /\ accounts = {"alice"}
    /\ maxInFlight = 1

\* she looks at her list, toggles, and asks for the decryption of the list
DecryptNext ==
    \/ \E u \in Users : Connect(u)
    \/ BecomeReady
    \/ \E u \in Users : StartLoad(u)
    \/ LoadCount
    \/ LoadFetch
    \/ \E contractIndex \in TodoIndexes : StartToggle(contractIndex)
    \/ \E s \in Slots : ToggleGetTodo(s)
    \/ \E s \in Slots : ToggleDecrypt(s)
    \/ \E s \in Slots : ToggleEncrypt(s)
    \/ \E s \in Slots : ToggleSubmit(s)
    \/ \E s \in Slots : ToggleReceipt(s)
    \/ StartDecrypt
    \/ \E s \in Slots : DecryptSign(s)
    \/ \E s \in Slots : DecryptUserDecrypt(s)

DecryptSpec == DecryptInit /\ [][DecryptNext]_vars

(***************************************************************************)
(* Specification of the page with a wallet that comes and goes             *)
(***************************************************************************)
\* the page opened again by alice after the earlier session; she waits for a
\* call to settle before the next one
PageInit ==
    /\ userTodos = pushTodo([u \in Users |-> <<>>], "alice",
                            newTodo(EarlierId, EarlierCompleted, 1))
    /\ todoCount = incTodoCount([u \in Users |-> 0], "alice")
    /\ acl = createTodoGrants({}, EarlierId, EarlierCompleted, "alice")
    /\ now = 1
    /\ txCount = 1
    /\ nCreates = [u \in Users |-> IF u = "alice" THEN 1 ELSE 0]
    /\ lastCall = [op |-> "createTodo", sender |-> "alice", todoIndex |-> 0,
                   encryptedId |-> EarlierId, encryptedCompleted |-> EarlierCompleted,
                   status |-> "ok", reason |-> "",
                   events |-> <<TodoCreated(todoCount, "alice", 1)>>]
    /\ HookMounted
    /\ textMap = saveText([u \in Users |-> EmptyMap], "alice", sdkHandle(EarlierId), "a")
    /\ completedMap = [u \in Users |-> EmptyMap]
    /\ contractAddress = TRUE
    /\ accounts = {"alice"}
    /\ maxInFlight = 1

\* the wallet connects and disconnects, she looks at her list and clicks on
\* the todos shown
PageNext ==
    \/ \E u \in Users : Connect(u)
    \/ Disconnect
    \/ BecomeReady
    \/ \E u \in Users : StartLoad(u)
    \/ LoadCount
    \/ LoadFetch
    \/ \E index \in TodoIndexes : onActivityToggle(index)
    \/ \E s \in Slots : ToggleGetTodo(s)
    \/ \E s \in Slots : ToggleDecrypt(s)
    \/ \E s \in Slots : ToggleEncrypt(s)
    \/ \E s \in Slots : ToggleSubmit(s)
    \/ \E s \in Slots : ToggleReceipt(s)

PageSpec == PageInit /\ [][PageNext]_vars

(***************************************************************************)
(* Specification of the page with a wallet of two accounts                 *)
(***************************************************************************)
\* the completion handle of the toggleTodo of the earlier session
EarlierToggled == [user |-> "alice", value |-> 1, nonce |-> 1]

\* the texts the dialog passes on
DialogTexts == {"a"}

\* the page opened again after a session in which alice created the todo "a"
\* and toggled it to completed, in a browser whose wallet holds both
\* accounts: local storage holds her text and her flag
SwitchInit ==
    /\ userTodos = setCompleted(pushTodo([u \in Users |-> <<>>], "alice",
                                         newTodo(EarlierId, EarlierCompleted, 1)),
                                "alice", 0, EarlierToggled, 1)
    /\ todoCount = incTodoCount([u \in Users |-> 0], "alice")
    /\ acl = toggleTodoGrants(createTodoGrants({}, EarlierId, EarlierCompleted, "alice"),
                              EarlierToggled, "alice")
    /\ now = 1
    /\ txCount = 2
    /\ nCreates = [u \in Users |-> IF u = "alice" THEN 1 ELSE 0]
    /\ lastCall = [op |-> "toggleTodo", sender |-> "alice", todoIndex |-> 0,
                   encryptedId |-> NoHandle, encryptedCompleted |-> EarlierToggled,
                   status |-> "ok", reason |-> "",
                   events |-> <<TodoToggled("alice", 0, 1)>>]
    /\ HookMounted
    /\ textMap = saveText([u \in Users |-> EmptyMap], "alice", sdkHandle(EarlierId), "a")
    /\ completedMap =
          saveCompletedMap([u \in Users |-> EmptyMap], "alice",
                           mapSet(EmptyMap, toLowerCase(ethersHandle(EarlierId)), TRUE))
    /\ contractAddress = TRUE
    /\ accounts = Users
    /\ maxInFlight = 1

\* the wallet connects, disconnects and changes the account, also while a
\* call is in flight; the user looks at the list and adds todos
SwitchNext ==
    \/ \E u \in Users : Connect(u)
    \/ Disconnect
    \/ BecomeReady
    \/ \E text \in DialogTexts : onAddActivity(text)
    \/ \E s \in Slots : CreateEncryptId(s)
    \/ \E s \in Slots : CreateEncryptCompleted(s)
    \/ \E s \in Slots : CreateSubmit(s)
    \/ \E s \in Slots : CreateReceipt(s)
    \/ \E u \in Users : StartLoad(u)
    \/ LoadCount
    \/ LoadFetch

SwitchSpec == SwitchInit /\ [][SwitchNext]_vars

(***************************************************************************)
(* Steps and outcomes the properties speak about.                          *)
(***************************************************************************)
\* the step is a transaction (not a new block)
IsTx == txCount' = txCount + 1

\* the last transaction was a successful createTodo sent by u
CreatedBy(u) ==
    lastCall.op = "createTodo" /\ lastCall.status = "ok" /\ lastCall.sender = u

\* the last transaction was a successful toggleTodo(i, ...) sent by u
ToggledBy(u, i) ==
    /\ lastCall.op = "toggleTodo" /\ lastCall.status = "ok"
    /\ lastCall.sender = u /\ lastCall.todoIndex = i

\* the indices of u's list
IndicesOf(u) == 0..(getTodoCount(u) - 1)

(***************************************************************************)
(* C1. Append-only storage: over any sequence of createTodo and toggleTodo *)
(* calls, no address's todo count ever decreases, and the encrypted id at  *)
(* an existing index of an address never changes.                          *)
(***************************************************************************)
C1_Step ==
    \A u \in Users :
        /\ getTodoCount(u)' >= getTodoCount(u)
        /\ \A i \in IndicesOf(u) : getTodo(u, i)'.id = getTodo(u, i).id

C1_AppendOnly == [][C1_Step]_vars

\* a toggle succeeded on a list of two todos
C1_Witness ==
    \E u \in Users, i \in TodoIndexes : ToggledBy(u, i) /\ getTodoCount(u) >= 2

(***************************************************************************)
(* C2. Each successful createTodo raises the caller's count by exactly 1   *)
(* and places the new todo at index (previous count); the count of a user  *)
(* equals the number of that user's successful createTodo calls.           *)
(***************************************************************************)
\* u's count is n + 1 and the todo at index n holds the submitted handles
C2_Placed(u, n) ==
    /\ getTodoCount(u) = n + 1
    /\ getTodo(u, n).id = lastCall.encryptedId
    /\ getTodo(u, n).completed = lastCall.encryptedCompleted

C2_Step ==
    \A u \in Users, n \in 0..MaxTx :
        (IsTx /\ CreatedBy(u)' /\ getTodoCount(u) = n) => C2_Placed(u, n)'

C2_CreateAppendsOne ==
    /\ [](\A u \in Users : getTodoCount(u) = nCreates[u])
    /\ [][C2_Step]_vars

\* a user's second createTodo succeeded, with an id other than the first one's
C2_Witness ==
    \E u \in Users :
        /\ CreatedBy(u) /\ getTodoCount(u) = 2
        /\ getTodo(u, 0).id # getTodo(u, 1).id

(***************************************************************************)
(* C3. Users are isolated: a transaction sent by A leaves the todo count   *)
(* and every stored todo (id, completed, timestamp) of every other address *)
(* unchanged.                                                              *)
(***************************************************************************)
C3_Step ==
    \A b \in Users :
        (IsTx /\ lastCall'.sender # b) =>
            /\ userTodos'[b] = userTodos[b]
            /\ getTodoCount(b)' = getTodoCount(b)

C3_UsersIsolated == [][C3_Step]_vars

\* a toggle by one user succeeded at an index the other user also has
C3_Witness ==
    \E a \in Users, b \in Users, i \in TodoIndexes :
        a # b /\ ToggledBy(a, i) /\ getTodoInBounds(b, i)

(***************************************************************************)
(* C4. Create/read round trip: after a successful createTodo(id,           *)
(* completed) by a user, getTodo(user, count-1) returns handles the user   *)
(* decrypts to the submitted id and the submitted completion value, and a  *)
(* timestamp > 0 equal to the block time of the creation.                  *)
(***************************************************************************)
C4_RoundTrip(u, blockTime) ==
    LET todo == getTodo(u, getTodoCount(u) - 1)
    IN /\ userDecrypt(todo.id, u) = Plain(lastCall.encryptedId)
       /\ userDecrypt(todo.completed, u) = Plain(lastCall.encryptedCompleted)
       /\ todo.timestamp > 0
       /\ todo.timestamp = blockTime

C4_Step ==
    \A u \in Users, blockTime \in 0..MaxTime :
        (IsTx /\ CreatedBy(u)' /\ now = blockTime) => C4_RoundTrip(u, blockTime)'

C4_CreateReadRoundTrip == [][C4_Step]_vars

\* a createTodo succeeded in a later block, with id and completion of different plaintexts
C4_Witness ==
    \E u \in Users :
        /\ CreatedBy(u)
        /\ Plain(lastCall.encryptedId) # Plain(lastCall.encryptedCompleted)
        /\ getTodo(u, getTodoCount(u) - 1).timestamp > 1

(***************************************************************************)
(* C5. After a successful toggleTodo(i, v) by a user, getTodo(user, i)     *)
(* returns a completion handle the user decrypts to the submitted v.       *)
(***************************************************************************)
C5_ToggleStoresSubmitted ==
    \A u \in Users, i \in TodoIndexes :
        ToggledBy(u, i) =>
            userDecrypt(getTodo(u, i).completed, u) = Plain(lastCall.encryptedCompleted)

\* a todo created with 0 was toggled to 1
C5_Witness ==
    \E u \in Users, i \in TodoIndexes :
        /\ ToggledBy(u, i)
        /\ Plain(lastCall.encryptedCompleted) = 1
        /\ [user |-> u, value |-> 0, nonce |-> 0] \in {p[1] : p \in acl}

(***************************************************************************)
(* C6. Right after deployment, and for any address without a createTodo    *)
(* of its own, getTodoCount(address) is 0.                                 *)
(***************************************************************************)
C6_NoCreateNoTodos ==
    \A u \in Users : nCreates[u] = 0 => getTodoCount(u) = 0

\* one user has todos while the other, who only sent a toggleTodo, has none
C6_Witness ==
    \E u \in Users, v \in Users :
        /\ nCreates[u] = 0 /\ getTodoCount(v) > 0
        /\ lastCall.sender = u /\ lastCall.op = "toggleTodo"

(***************************************************************************)
(* C7. Only the owner can decrypt: for every id or completion handle       *)
(* stored in a todo of user U, the parties allowed on it are U and the     *)
(* contract only, and no transaction of another address adds a permission  *)
(* on a handle stored in U's list.                                         *)
(***************************************************************************)
\* the handles stored in u's list
StoredHandles(u) ==
    {getTodo(u, i).id : i \in IndicesOf(u)} \cup
    {getTodo(u, i).completed : i \in IndicesOf(u)}

\* the accounts allowed on handle h
AllowedOn(h) == {p[2] : p \in {q \in acl : q[1] = h}}

C7_OwnerOnly ==
    \A u \in Users : \A h \in StoredHandles(u) : AllowedOn(h) \subseteq {u, This}

C7_Step ==
    IsTx =>
        \A u \in Users \ {lastCall'.sender} : \A h \in StoredHandles(u) :
            AllowedOn(h)' = AllowedOn(h)

C7_OnlyOwnerDecrypts == []C7_OwnerOnly /\ [][C7_Step]_vars

\* both users hold todos, and the last transaction stored a handle for one of them
C7_Witness ==
    /\ \A u \in Users : getTodoCount(u) > 0
    /\ lastCall.status = "ok" /\ lastCall.op # "none"
    /\ \A u \in Users : \A h \in StoredHandles(u) : AllowedOn(h) = {u, This}

(***************************************************************************)
(* C8. In every reachable state the decrypted completion status of every   *)
(* stored todo is 0 (incomplete) or 1 (complete).                          *)
(***************************************************************************)
C8_CompletionIsZeroOrOne ==
    \A u \in Users : \A i \in IndicesOf(u) :
        userDecrypt(getTodo(u, i).completed, u) \in {0, 1}

(***************************************************************************)
(* C9. toggleTodo toggles: after a successful toggleTodo on index i the    *)
(* decrypted completion status of todo i is the opposite of what it was    *)
(* before the call.                                                        *)
(***************************************************************************)
C9_Step ==
    \A u \in Users, i \in TodoIndexes, before \in Values :
        (IsTx /\ ToggledBy(u, i)' /\ Plain(getTodo(u, i).completed) = before) =>
            Plain(getTodo(u, i).completed)' = 1 - before

C9_ToggleFlips == [][C9_Step]_vars

(***************************************************************************)
(* C10. toggleTodo with todoIndex >= the caller's own todo count reverts   *)
(* with "Todo index out of bounds": no todo of any user is modified, no    *)
(* timestamp changes and no TodoToggled event is emitted.                  *)
(***************************************************************************)
C10_Step ==
    \A u \in Users, i \in TodoIndexes :
        (/\ IsTx
         /\ lastCall'.op = "toggleTodo" /\ lastCall'.sender = u
         /\ lastCall'.todoIndex = i
         /\ i >= getTodoCount(u)) =>
            /\ lastCall'.status = "reverted"
            /\ lastCall'.reason = "Todo index out of bounds"
            /\ lastCall'.events = <<>>
            /\ userTodos' = userTodos
            /\ todoCount' = todoCount
            /\ acl' = acl

C10_ToggleOutOfBoundsReverts == [][C10_Step]_vars

\* a toggleTodo reverted at an index that the other user's list does have
C10_Witness ==
    \E u \in Users, v \in Users :
        /\ u # v
        /\ lastCall.op = "toggleTodo" /\ lastCall.sender = u
        /\ lastCall.status = "reverted"
        /\ lastCall.reason = "Todo index out of bounds"
        /\ lastCall.todoIndex >= getTodoCount(u)
        /\ lastCall.todoIndex < getTodoCount(v)

(***************************************************************************)
(* C11. getTodo(user, index) succeeds if and only if index <               *)
(* getTodoCount(user), and reverts with "Todo index out of bounds"         *)
(* otherwise; every index in 0..getTodoCount(user)-1 is readable.          *)
(***************************************************************************)
C11_GetTodoBounds ==
    \A u \in Users : \A i \in 0..MaxTx :
        LET r == getTodoCall(u, i)
        IN /\ (r.status = "ok") <=> (i < getTodoCount(u))
           /\ i >= getTodoCount(u) =>
                /\ r.status = "reverted"
                /\ r.reason = "Todo index out of bounds"
           /\ i < getTodoCount(u) => r.todo = userTodos[u][i + 1]

\* one list has two todos while the other is empty
C11_Witness ==
    \E u \in Users, v \in Users :
        /\ getTodoCount(u) = 2 /\ getTodoCount(v) = 0
        /\ getTodoCall(u, 1).status = "ok"
        /\ getTodoCall(u, 2).status = "reverted"
        /\ getTodoCall(v, 0).status = "reverted"

(***************************************************************************)
(* C17. In every reachable state _todoCount[user] equals                   *)
(* _userTodos[user].length for every user, and the todoIndex emitted in    *)
(* TodoCreated is the index at which the new todo is read through getTodo. *)
(***************************************************************************)
C17_CounterIsLength ==
    /\ \A u \in Users : todoCount[u] = Len(userTodos[u])
    /\ \A u \in Users :
          CreatedBy(u) =>
              /\ Len(lastCall.events) = 1
              /\ lastCall.events[1].name = "TodoCreated"
              /\ lastCall.events[1].user = u
              /\ LET r == getTodoCall(u, lastCall.events[1].todoIndex)
                 IN /\ r.status = "ok"
                    /\ r.todo.id = lastCall.encryptedId
                    /\ r.todo.completed = lastCall.encryptedCompleted
                    /\ lastCall.events[1].todoIndex = getTodoCount(u) - 1

\* a user's second createTodo emitted index 1, its todo differing from the one at index 0
C17_Witness ==
    \E u \in Users :
        /\ CreatedBy(u)
        /\ lastCall.events[1].todoIndex = 1
        /\ getTodo(u, 0).id # getTodo(u, 1).id

(***************************************************************************)
(* C18. A successful toggleTodo(i, v) changes only the completed field and *)
(* the timestamp of the caller's todo i (the timestamp becomes the block   *)
(* time): the id of todo i, every other todo of the caller and the         *)
(* caller's todo count are unchanged.                                      *)
(***************************************************************************)
C18_Step ==
    \A u \in Users, i \in TodoIndexes :
        (IsTx /\ ToggledBy(u, i)') =>
            /\ getTodoCount(u)' = getTodoCount(u)
            /\ todoCount' = todoCount
            /\ getTodo(u, i)'.id = getTodo(u, i).id
            /\ getTodo(u, i)'.timestamp = now
            /\ \A j \in IndicesOf(u) : j # i => getTodo(u, j)' = getTodo(u, j)

C18_ToggleFrame == [][C18_Step]_vars

\* a toggle in a later block than the creation, on a list of two todos
C18_Witness ==
    \E u \in Users, i \in TodoIndexes :
        /\ ToggledBy(u, i) /\ getTodoCount(u) = 2
        /\ \E j \in IndicesOf(u) : getTodo(u, j).timestamp < getTodo(u, i).timestamp

(***************************************************************************)
(* C19. getTodoTimestamps(user) returns an array as long as                *)
(* getTodoCount(user) whose element i is the timestamp getTodo(user, i)    *)
(* returns (an empty array for a user with no todos).                      *)
(***************************************************************************)
C19_TimestampsMatch ==
    \A u \in Users :
        /\ Len(getTodoTimestamps(u)) = getTodoCount(u)
        /\ \A i \in IndicesOf(u) :
              getTodoTimestamps(u)[i + 1] = getTodoCall(u, i).todo.timestamp

\* a list of two todos with different timestamps, next to an empty list
C19_Witness ==
    \E u \in Users, v \in Users :
        /\ getTodoCount(u) = 2 /\ getTodoCount(v) = 0
        /\ getTodoTimestamps(u)[1] # getTodoTimestamps(u)[2]
        /\ getTodoTimestamps(v) = <<>>

(***************************************************************************)
(* C20: createTodo with an empty or whitespace-only text sets the message  *)
(* "Todo text cannot be empty" and returns without throwing; no call is    *)
(* left in flight (no encryption is requested), the contract sees no       *)
(* transaction, isLoading is not touched and the text map is unchanged.    *)
(***************************************************************************)
C20_Step ==
    \A text \in {"", " "} :
        StartCreate(text) =>
            /\ message' = <<"Todo text cannot be empty">>
            /\ settled' = [call |-> "createTodo", outcome |-> "returned"]
            /\ ops' = ops
            /\ isLoading' = isLoading
            /\ textMap' = textMap
            /\ UNCHANGED chainVars

C20_EmptyTextRejected == [][C20_Step]_vars

\* the call was made with every prerequisite set and a text map that already
\* holds a text, and it returned with the message
C20_Witness ==
    /\ ready
    /\ textMap["alice"] # EmptyMap
    /\ message = <<"Todo text cannot be empty">>
    /\ settled = [call |-> "createTodo", outcome |-> "returned"]

(***************************************************************************)
(* C12: createTodo goes encrypt id, encrypt completion (0), submit, wait   *)
(* for the receipt, save the text. The contract gets a createTodo          *)
(* transaction only from a call that holds a handle from each encryption,  *)
(* the text map changes only when a call whose transaction is on the       *)
(* contract gets its receipt and returns, and a call that throws leaves    *)
(* the text map as it was.                                                 *)
(***************************************************************************)
\* the places of createTodo, in order
C12_Order ==
    {<<"encryptId", "encryptCompleted">>, <<"encryptCompleted", "submit">>,
     <<"submit", "wait">>}

\* the call at place s holds handles of both encryptions
C12_Encrypted(s) ==
    /\ Len(ops[s].encryptedId) > 0
    /\ Len(ops[s].encryptedCompleted) > 0
    /\ Plain(ops[s].encryptedCompleted[1].h) = 0

C12_Step ==
    /\ \A s \in DOMAIN ops \cap DOMAIN ops' :
          (ops[s].kind = "createTodo" /\ ops'[s].kind = "createTodo"
             /\ ops'[s].pc # ops[s].pc)
          => <<ops[s].pc, ops'[s].pc>> \in C12_Order
    /\ (IsTx /\ lastCall'.op = "createTodo")
          => \E s \in DOMAIN ops :
                /\ inFlight(s, "createTodo", "submit")
                /\ C12_Encrypted(s)
                /\ lastCall'.encryptedId = ops[s].encryptedId[1].h
                /\ lastCall'.encryptedCompleted = ops[s].encryptedCompleted[1].h
                /\ ops'[s].pc = "wait"
    /\ textMap' # textMap
          => \E s \in DOMAIN ops :
                /\ inFlight(s, "createTodo", "wait")
                /\ ops' = without(s)
                /\ settled' = [call |-> "createTodo", outcome |-> "returned"]
                /\ \E k \in DOMAIN userTodos[ops[s].addr] :
                      userTodos[ops[s].addr][k].id = ops[s].encryptedId[1].h
    /\ \A s \in DOMAIN ops :
          (ops[s].kind = "createTodo" /\ ops' = without(s)
             /\ settled' = [call |-> "createTodo", outcome |-> "threw"])
          => textMap' = textMap

C12_CreateOrder == [][C12_Step]_vars

\* one createTodo saved its text, and a later one threw after its transaction
\* was mined: the contract holds two todos, the text map one text
C12_Witness ==
    /\ Len(userTodos["alice"]) = 2
    /\ Cardinality(DOMAIN textMap["alice"]) = 1
    /\ settled = [call |-> "createTodo", outcome |-> "threw"]
    /\ ops = <<>>

(***************************************************************************)
(* C13: when createTodo(text) returns, the text map of the calling address *)
(* holds text under the lower-case string of the id handle the contract    *)
(* stores; a loadTodos that reads the text map afterwards shows every      *)
(* todo whose handle has an entry with that text and isDecrypted = true,   *)
(* and every other todo as "Encrypted Todo #<index + 1>" with              *)
(* isDecrypted = false.                                                    *)
(***************************************************************************)
\* the key loadTodos looks up for the todo at an index of the contract
C13_Key(user, index) == toLowerCase(ethersHandle(getTodo(user, index).id))

C13_Step ==
    /\ \A s \in DOMAIN ops :
          (inFlight(s, "createTodo", "wait") /\ ops' = without(s)
             /\ settled' = [call |-> "createTodo", outcome |-> "returned"])
          => \E index \in 0..(getTodoCount(ops[s].addr) - 1) :
                /\ getTodo(ops[s].addr, index).id = ops[s].encryptedId[1].h
                /\ C13_Key(ops[s].addr, index) \in DOMAIN textMap'[ops[s].addr]
                /\ textMap'[ops[s].addr][C13_Key(ops[s].addr, index)] = ops[s].text
    /\ (loader.kind = "loadTodos" /\ loader.pc = "count"
          /\ loader'.kind = "loadTodos" /\ loader'.pc = "fetch")
          => loader'.textMap = textMap[loader.addr]
    /\ (loader.kind = "loadTodos" /\ loader.pc = "fetch" /\ loader' = Idle)
          => \A k \in DOMAIN todos' :
                LET key == C13_Key(loader.addr, todos'[k].index)
                IN  /\ todos'[k].encryptedId = key
                    /\ IF key \in DOMAIN loader.textMap
                       THEN /\ todos'[k].text = UserText(loader.textMap[key])
                            /\ todos'[k].isDecrypted
                       ELSE /\ todos'[k].text = PlaceholderText(todos'[k].index)
                            /\ ~todos'[k].isDecrypted

C13_TextRecovery == [][C13_Step]_vars

\* the list shows one todo with the text saved by its createTodo and one,
\* whose createTodo threw before saving, with the placeholder
C13_Witness ==
    /\ loader = Idle
    /\ \E k \in DOMAIN todos :
          todos[k].isDecrypted /\ todos[k].text = UserText("a")
    /\ \E k \in DOMAIN todos :
          ~todos[k].isDecrypted /\ todos[k].text = PlaceholderText(todos[k].index)

(***************************************************************************)
(* C14: when loadTodos sets the list, with no other call in flight and     *)
(* every fetched entry equal to what the contract holds at that moment,    *)
(* the completed flag of every todo shown equals the decrypted completion  *)
(* status the contract stores for it.                                      *)
(***************************************************************************)
\* the decrypted status of the todo at an index, as a flag
C14_OnChainCompleted(user, index) ==
    userDecrypt(getTodo(user, index).completed, user) = 1

C14_Step ==
    (loader.kind = "loadTodos" /\ loader.pc = "fetch" /\ loader' = Idle
       /\ loader.count = getTodoCount(loader.addr) /\ ops = <<>>
       /\ \A i \in 1..Len(loader.todoData) :
             loader.todoData[i] = fetched(loader.addr, loader.todoData[i].index))
    => \A k \in DOMAIN todos' :
          todos'[k].completed = C14_OnChainCompleted(loader.addr, todos'[k].index)

C14_LoadShowsOnChainStatus == [][C14_Step]_vars

(***************************************************************************)
(* C15: every toggleTodo transaction of the hook that succeeds flips the   *)
(* completion status the contract stores at that index, from 0 to 1 or     *)
(* from 1 to 0, and leaves every other todo as it was; the contract is     *)
(* called by the hook only, so the stored status is always 0 or 1.         *)
(***************************************************************************)
C15_Step ==
    (IsTx /\ lastCall'.op = "toggleTodo" /\ lastCall'.status = "ok")
    => LET user == lastCall'.sender
           index == lastCall'.todoIndex
       IN  /\ Plain(getTodo(user, index).completed) \in {0, 1}
           /\ Plain(userTodos'[user][index + 1].completed)
                 = 1 - Plain(getTodo(user, index).completed)
           /\ \A u \in Users : \A i \in 0..(getTodoCount(u) - 1) :
                 (u # user \/ i # index) => userTodos'[u][i + 1] = getTodo(u, i)

C15_HookToggleFlips == [][C15_Step]_vars

(***************************************************************************)
(* C16: when toggleTodo returns, the todo of that index in the local list  *)
(* has the completed flag, and the completed map of the calling address    *)
(* the value under its id handle, that equals the status the call wrote to *)
(* the contract.                                                           *)
(***************************************************************************)
C16_Step ==
    \A s \in DOMAIN ops :
        (inFlight(s, "toggleTodo", "wait") /\ ops' = without(s)
           /\ settled' = [call |-> "toggleTodo", outcome |-> "returned"])
        => \A k \in DOMAIN todos' :
              todos'[k].index = ops[s].contractIndex
              => /\ todos'[k].completed = (ops[s].newCompleted = 1)
                 /\ todos'[k].encryptedId \in DOMAIN completedMap'[ops[s].addr]
                 /\ completedMap'[ops[s].addr][todos'[k].encryptedId]
                       = (ops[s].newCompleted = 1)

C16_ToggleUpdatesLocalFlag == [][C16_Step]_vars

(***************************************************************************)
(* C21: createTodo with a text that is not blank, called without a         *)
(* contract address or without signer, FHEVM instance, address or          *)
(* provider, sets the message of the missing prerequisite and throws: no   *)
(* call is left in flight (nothing is encrypted), the contract sees no     *)
(* transaction, isLoading is not touched and no local map is written.      *)
(***************************************************************************)
\* the message of the prerequisite check that fails first
C21_Message ==
    IF ~contractAddress
    THEN <<"Contract address not configured. Please set VITE_CONTRACT_ADDRESS in .env.local">>
    ELSE <<"Wallet not connected or FHEVM not initialized">>

C21_Step ==
    \A text \in Texts :
        (StartCreate(text) /\ trim(text) # ""
           /\ (~contractAddress \/ ~ready \/ address = NoAddress))
        => /\ message' = C21_Message
           /\ settled' = [call |-> "createTodo", outcome |-> "threw"]
           /\ ops' = ops
           /\ isLoading' = isLoading
           /\ textMap' = textMap
           /\ completedMap' = completedMap
           /\ UNCHANGED chainVars

C21_MissingPrerequisiteThrows == [][C21_Step]_vars

\* the contract address is configured and the wallet connected, signer and
\* instance are not there yet, and the call threw with the message
C21_Witness ==
    /\ contractAddress
    /\ address # NoAddress
    /\ ~ready
    /\ ops = <<>>
    /\ ~isLoading
    /\ message = <<"Wallet not connected or FHEVM not initialized">>
    /\ settled = [call |-> "createTodo", outcome |-> "threw"]

(***************************************************************************)
(* C24: isLoading is true whenever a createTodo, toggleTodo or loadTodos   *)
(* call is in flight, that is, past its prerequisite checks and not yet    *)
(* settled, also when such calls overlap.                                  *)
(***************************************************************************)
C24_LoadingWhileInFlight ==
    (ops # <<>> \/ loader # Idle) => isLoading

(***************************************************************************)
(* C22: toggleTodo and decryptTodos called while the contract address, the *)
(* signer, the FHEVM instance, the address or the provider is missing set  *)
(* their "Missing requirements ..." message and return without throwing:   *)
(* no call is left in flight (no contract call, no signature request), the *)
(* contract sees no transaction and todos, the flags and the local maps    *)
(* are unchanged. decryptTodos with every prerequisite and an empty list   *)
(* returns the same way with "No todos to decrypt".                        *)
(***************************************************************************)
\* a prerequisite of toggleTodo and decryptTodos is missing
C22_Missing == ~contractAddress \/ ~ready \/ address = NoAddress

\* the call returned with the message and touched nothing else
C22_Returned(call, msg) ==
    /\ message' = msg
    /\ settled' = [call |-> call, outcome |-> "returned"]
    /\ ops' = ops
    /\ todos' = todos
    /\ isLoading' = isLoading
    /\ isDecrypting' = isDecrypting
    /\ textMap' = textMap
    /\ completedMap' = completedMap
    /\ UNCHANGED chainVars

C22_Step ==
    /\ \A contractIndex \in TodoIndexes :
          (StartToggle(contractIndex) /\ C22_Missing)
          => C22_Returned("toggleTodo", <<"Missing requirements for toggling todo">>)
    /\ (StartDecrypt /\ C22_Missing)
       => C22_Returned("decryptTodos", <<"Missing requirements for decryption">>)
    /\ (StartDecrypt /\ ~C22_Missing /\ Len(todos) = 0)
       => C22_Returned("decryptTodos", <<"No todos to decrypt">>)

C22_MissingPrerequisiteReturns == [][C22_Step]_vars

\* the wallet is connected to a contract that holds todos, signer and
\* instance are not there yet, and toggleTodo returned with its message
C22_Witness ==
    /\ contractAddress
    /\ address # NoAddress
    /\ ~ready
    /\ getTodoCount(address) > 0
    /\ ops = <<>>
    /\ message = <<"Missing requirements for toggling todo">>
    /\ settled = [call |-> "toggleTodo", outcome |-> "returned"]

(***************************************************************************)
(* C25: when decryptTodos returns after its batch decryption, the list is  *)
(* the list the call started from, entry by entry (index, id handle,       *)
(* completion handle), every todo has isDecrypted = TRUE and completed =   *)
(* (the plaintext of its completion handle is 1), and the completed map of *)
(* the address the call was made for holds that flag under the lower-cased *)
(* id handle of every todo. When decryptTodos throws, the list and the     *)
(* completed maps are as before.                                           *)
(***************************************************************************)
C25_Step ==
    \A s \in DOMAIN ops :
        (ops[s].kind = "decryptTodos" /\ ops' = without(s))
        => IF settled'.outcome = "returned"
           THEN /\ DOMAIN todos' = DOMAIN ops[s].todos
                /\ \A k \in DOMAIN todos' :
                      /\ todos'[k].index = ops[s].todos[k].index
                      /\ todos'[k].encryptedId = ops[s].todos[k].encryptedId
                      /\ todos'[k].encryptedCompleted = ops[s].todos[k].encryptedCompleted
                      /\ todos'[k].isDecrypted
                      /\ todos'[k].completed = (Plain(todos'[k].encryptedCompleted.h) = 1)
                      /\ toLowerCase(todos'[k].encryptedId)
                            \in DOMAIN completedMap'[ops[s].addr]
                      /\ completedMap'[ops[s].addr][toLowerCase(todos'[k].encryptedId)]
                            = todos'[k].completed
           ELSE /\ settled' = [call |-> "decryptTodos", outcome |-> "threw"]
                /\ todos' = todos
                /\ completedMap' = completedMap

C25_DecryptAll == [][C25_Step]_vars

\* decryptTodos returned for a list of two todos, one toggled to completed
\* and one not
C25_Witness ==
    /\ settled = [call |-> "decryptTodos", outcome |-> "returned"]
    /\ message = <<"Todos decrypted successfully!">>
    /\ Len(todos) = 2
    /\ \A k \in DOMAIN todos : todos[k].isDecrypted
    /\ \E k \in DOMAIN todos : todos[k].completed
    /\ \E k \in DOMAIN todos : ~todos[k].completed
    /\ \A k \in DOMAIN todos :
          mapGet(completedMap[address], todos[k].encryptedId, ~todos[k].completed)
             = todos[k].completed

(***************************************************************************)
(* C23: the page shows "Todo updated!" (resp. "Todo created                *)
(* successfully!") only when a toggleTodo (resp. createTodo) call returns  *)
(* whose transaction was sent to the contract and whose receipt has come.  *)
(***************************************************************************)
\* the step at which handleToggleTodo shows toast.success('Todo updated!'):
\* the toggleTodo it awaits returns, at once or after its awaits
C23_ToggleToast ==
    \/ \E index \in TodoIndexes :
          onActivityToggle(index) /\ ops' = ops /\ settled'.outcome = "returned"
    \/ \E s \in DOMAIN ops :
          /\ ops[s].kind = "toggleTodo" /\ ops' = without(s)
          /\ settled'.outcome = "returned"

\* the step at which handleAddTodo shows toast.success('Todo created
\* successfully!')
C23_CreateToast ==
    \/ \E text \in Texts :
          onAddActivity(text) /\ ops' = ops /\ settled'.outcome = "returned"
    \/ \E s \in DOMAIN ops :
          /\ ops[s].kind = "createTodo" /\ ops' = without(s)
          /\ settled'.outcome = "returned"

\* the call that returns at this step had sent its transaction and waited
\* for the receipt
C23_Confirmed(kind) ==
    \E s \in DOMAIN ops : inFlight(s, kind, "wait") /\ ops' = without(s)

C23_Step ==
    /\ C23_ToggleToast => C23_Confirmed("toggleTodo")
    /\ C23_CreateToast => C23_Confirmed("createTodo")

C23_SuccessToastMeansConfirmed == [][C23_Step]_vars

(***************************************************************************)
(* C26: the local maps are kept per address. A call is made for the        *)
(* address connected when it starts; the text map and the completed map of *)
(* an address change only when a call made for that address settles, also  *)
(* when another address or none is connected by then; the list loadTodos   *)
(* sets for an address takes its texts and its flags from the maps of that *)
(* address only; without an address the maps read as empty and saving      *)
(* changes nothing.                                                        *)
(***************************************************************************)
\* a call made for u settles at this step
C26_SettlesFor(u) ==
    \E s \in DOMAIN ops : ops[s].addr = u /\ ops' = without(s)

C26_Step ==
    /\ Len(ops') > Len(ops)
       => address # NoAddress /\ ops'[Len(ops')].addr = address
    /\ \A u \in reloadPending' \ reloadPending : u = address \/ C26_SettlesFor(u)
    /\ \A u \in Users :
          (textMap'[u] # textMap[u] \/ completedMap'[u] # completedMap[u])
          => C26_SettlesFor(u)
    /\ (loader.kind = "loadTodos" /\ loader.pc = "fetch" /\ loader' = Idle)
       => \A k \in DOMAIN todos' :
             /\ todos'[k].isDecrypted
                => /\ todos'[k].encryptedId \in DOMAIN textMap[loader.addr]
                   /\ todos'[k].text
                         = UserText(textMap[loader.addr][todos'[k].encryptedId])
             /\ ~todos'[k].isDecrypted => todos'[k].text = PlaceholderText(todos'[k].index)
             /\ todos'[k].completed
                   = mapGet(completedMap[loader.addr], todos'[k].encryptedId, FALSE)
    /\ getTextMap(textMap, NoAddress) = EmptyMap
    /\ getCompletedMap(completedMap, NoAddress) = EmptyMap
    /\ \A u \in Users :
          /\ saveTextMap(textMap, NoAddress, textMap[u]) = textMap
          /\ saveCompletedMap(completedMap, NoAddress, completedMap[u]) = completedMap

====
